---- MODULE Spec2Model ----
(***************************************************************************)
(* A model of monitor-contas: the bill extractor (extract_bill_data.py),   *)
(* the weather updater (extract_weather.py) and the hybrid forecast block  *)
(* of the dashboard (dashboard.py).                                        *)
(*                                                                         *)
(* Three specifications share the module, one per component:               *)
(*   SpecBills    runs of process_all_faturas over a changing directory    *)
(*   SpecWeather  calls of update_weather_data under an advancing clock    *)
(*   SpecDash     renderings of the dashboard between weather updates      *)
(***************************************************************************)
EXTENDS Integers, Sequences, FiniteSets, TLC

(***************************************************************************)
(* Bounds of the model.                                                    *)
(***************************************************************************)
NumFiles == 2          \* PDF names that can appear in Faturas/
MaxRuns == 2           \* runs of process_all_faturas in one behaviour
TicksPerDay == 2       \* resolution of the clock: instants in one day
Day0 == 400            \* the day on which a behaviour starts
MaxTicks == 6          \* how far the clock advances in one behaviour
ShortForecast == 3     \* days of a forecast shorter than the one asked for

Files == 1..NumFiles
\* item.get("arquivo_origem") of a record that has no such key
None == 0

(***************************************************************************)
(* Values of the field leitura_atual of a response: a reading date, given  *)
(* as a day number (the text "DD/MM/YYYY" of that day), or null.           *)
(***************************************************************************)
Null == -1
BillLeituras == {Null, 40}

VARIABLES
    \* ---- the file system -------------------------------------------------
    faturas,            \* Faturas/: [isdir, pdfs]
    bills_file,         \* bills_history.json: [state, recs]
    \* ---- process_all_faturas ---------------------------------------------
    pc,                 \* "idle" | "loop" | "done"
    history,            \* the list history
    processed_files,    \* the set processed_files
    pdf_files,          \* the list glob returned
    idx,                \* position of the for loop in pdf_files
    new_data_count,     \* the counter, the value returned at "done"
    \* ---- history of the run, for the properties --------------------------
    runs,               \* runs started so far
    file0,              \* bills_history.json when the run started
    outcome,            \* per PDF name, what this run did with it
    rerun,              \* [same_dir, first_failed]: how this run relates to
                        \* the run that returned just before it
    \* ---- the clock and the weather store ----------------------------------
    now,                \* datetime.now(), in ticks
    weather_file,       \* weather_history.json: [state, daily]
    wcall,              \* the last call of update_weather_data, and the one
                        \* before it
    \* ---- the dashboard ----------------------------------------------------
    proj                \* the hybrid forecast block of the page last rendered

bvars == <<faturas, bills_file, pc, history, processed_files, pdf_files, idx,
           new_data_count, runs, file0, outcome, rerun>>

wvars == <<now, weather_file, wcall>>

vars == <<bvars, wvars, proj>>

(***************************************************************************)
(* Sequences.                                                              *)
(***************************************************************************)
Range(s) == {s[i] : i \in 1..Len(s)}

IsPrefix(s, t) == Len(s) <= Len(t) /\ \A i \in 1..Len(s) : s[i] = t[i]

Perms(S) == {p \in [1..Cardinality(S) -> S] : \A i, j \in 1..Cardinality(S) : p[i] = p[j] => i = j}

(***************************************************************************)
(* bills_history.json.  state is "absent" (no file), "ok" (json.load       *)
(* returns recs) or "corrupt" (json.load raises JSONDecodeError; recs are  *)
(* the records whose text is complete in the file).                        *)
(***************************************************************************)
AbsentFile == [state |-> "absent", recs |-> <<>>]

\* A bill record: the fields of the response plus arquivo_origem.  encodable
\* is FALSE when a string of the response holds a lone surrogate, which
\* json.loads accepts and a utf-8 text file refuses to write.
Rec(f, l, e) == [arquivo_origem |-> f, leitura_atual |-> l, encodable |-> e]

Names(recs) == {recs[i].arquivo_origem : i \in 1..Len(recs)}

\* history = json.load(f), or [] when the file is absent or does not parse
LoadHistory(file) == IF file.state = "ok" THEN file.recs ELSE <<>>

\* {item.get("arquivo_origem") for item in history if item.get("arquivo_origem")}
ProcessedFiles(h) == Names(h) \ {None}

\* the longest prefix of h that json.dump writes before it raises
RECURSIVE EncodablePrefix(_)
EncodablePrefix(h) ==
    IF h = <<>> \/ ~h[1].encodable THEN <<>>
    ELSE <<h[1]>> \o EncodablePrefix(Tail(h))

\* with open(history_file, "w") as f: json.dump(history, f, ...)
\* open truncates the file; json.dump streams the records and raises
\* UnicodeEncodeError at the first string the encoding refuses.
DumpOk(h) == \A i \in 1..Len(h) : h[i].encodable

SaveHistory(h) ==
    IF DumpOk(h) THEN [state |-> "ok", recs |-> h]
    ELSE [state |-> "corrupt", recs |-> EncodablePrefix(h)]

(***************************************************************************)
(* What extract_data and json.loads make of one PDF.                       *)
(***************************************************************************)
\*   upload_error  genai.upload_file raises
\*   not_active    wait_for_files_active raises: the state is neither
\*                 PROCESSING nor ACTIVE
\*   bad_json      json.loads raises
\*   not_object    the JSON value is no object: data["arquivo_origem"] raises
\*   object        a JSON object
FailKinds == {"upload_error", "not_active", "bad_json", "not_object"}

Responses ==
    [kind : FailKinds, leitura_atual : {Null}, encodable : {TRUE}] \cup
    [kind : {"object"}, leitura_atual : BillLeituras, encodable : BOOLEAN]

NoOutcome == "none"

\* filename in processed_files
MutAlreadyProcessed(filename, processed) == FALSE
AlreadyProcessed(filename, processed) == filename \in processed

\* the except clause of the loop: the batch goes on with the next file
MutAfterFailure(i, n) == n + 1
AfterFailure(i, n) == i + 1

Failed(o) == o \in {"failed", "save_error"}

\* what Faturas/ can be when a run starts: no directory, or any set of PDFs
Directories ==
    {[isdir |-> FALSE, pdfs |-> {}]} \cup [isdir : {TRUE}, pdfs : SUBSET Files]

(***************************************************************************)
(* process_all_faturas, lines 87-116: the directory test, the load of the  *)
(* history, processed_files, the glob and the early returns.  The          *)
(* directory is whatever the user has put there since the last run.        *)
(***************************************************************************)
StartRun(dir) ==
    /\ pc \in {"idle", "done"}
    /\ runs < MaxRuns
    /\ runs' = runs + 1
    /\ faturas' = dir
    /\ file0' = bills_file
    /\ outcome' = [f \in Files |-> NoOutcome]
    /\ rerun' = [same_dir |-> pc = "done" /\ dir = faturas,
                 first_failed |-> \E f \in Files : Failed(outcome[f])]
    /\ new_data_count' = 0
    /\ idx' = 1
    /\ UNCHANGED <<bills_file, wvars, proj>>
    /\ IF ~dir.isdir
       THEN \* return 0
            /\ pc' = "done"
            /\ history' = <<>>
            /\ processed_files' = {}
            /\ pdf_files' = <<>>
       ELSE /\ history' = LoadHistory(bills_file)
            /\ processed_files' = ProcessedFiles(LoadHistory(bills_file))
            /\ \E order \in Perms(dir.pdfs) :
                 pdf_files' = [i \in 1..Cardinality(dir.pdfs) |-> order[i]]
            \* if not pdf_files: return 0
            /\ pc' = IF dir.pdfs = {} THEN "done" ELSE "loop"

(***************************************************************************)
(* One iteration of the for loop, lines 118-148.                           *)
(***************************************************************************)
\* if filename in processed_files: continue
SkipItem ==
    /\ pc = "loop"
    /\ idx <= Len(pdf_files)
    /\ AlreadyProcessed(pdf_files[idx], processed_files)
    /\ idx' = idx + 1
    /\ outcome' = [outcome EXCEPT ![pdf_files[idx]] = "skipped"]
    /\ UNCHANGED <<faturas, bills_file, pc, history, processed_files,
                   pdf_files, new_data_count, runs, file0, rerun, wvars, proj>>

\* extract_data or json.loads raises, or data is no dict: nothing is added
FailItem(r) ==
    /\ pc = "loop"
    /\ idx <= Len(pdf_files)
    /\ ~AlreadyProcessed(pdf_files[idx], processed_files)
    /\ r.kind \in FailKinds
    /\ idx' = AfterFailure(idx, Len(pdf_files))
    /\ outcome' = [outcome EXCEPT ![pdf_files[idx]] = "failed"]
    /\ UNCHANGED <<faturas, bills_file, pc, history, processed_files,
                   pdf_files, new_data_count, runs, file0, rerun, wvars, proj>>

\* the response is a JSON object: lines 132-141.  The record is appended and
\* counted before the store is written; the write raises when the history
\* holds a string the file's encoding refuses, and the except clause
\* catches that as well.
AddItem(r) ==
    /\ pc = "loop"
    /\ idx <= Len(pdf_files)
    /\ ~AlreadyProcessed(pdf_files[idx], processed_files)
    /\ r.kind = "object"
    /\ LET filename == pdf_files[idx]
           data == Rec(filename, r.leitura_atual, r.encodable)
           h == Append(history, data)
       IN /\ history' = h
          /\ processed_files' = processed_files \cup {filename}
          /\ new_data_count' = new_data_count + 1
          /\ bills_file' = SaveHistory(h)
          /\ outcome' = [outcome EXCEPT ![filename] =
                            IF DumpOk(h) THEN "ok" ELSE "save_error"]
          /\ idx' = IF DumpOk(h) THEN idx + 1
                    ELSE AfterFailure(idx, Len(pdf_files))
    /\ UNCHANGED <<faturas, pc, pdf_files, runs, file0, rerun, wvars, proj>>

\* lines 150-152: return new_data_count
FinishRun ==
    /\ pc = "loop"
    /\ idx > Len(pdf_files)
    /\ pc' = "done"
    /\ UNCHANGED <<faturas, bills_file, history, processed_files, pdf_files,
                   idx, new_data_count, runs, file0, outcome, rerun, wvars, proj>>

\* the process is killed between two iterations (KeyboardInterrupt is no
\* Exception, so the except clause lets it through): only the file is left
InterruptRun ==
    /\ pc = "loop"
    /\ idx <= Len(pdf_files)
    /\ pc' = "idle"
    /\ history' = <<>>
    /\ processed_files' = {}
    /\ pdf_files' = <<>>
    /\ idx' = 1
    /\ new_data_count' = 0
    /\ outcome' = [f \in Files |-> NoOutcome]
    /\ UNCHANGED <<faturas, bills_file, runs, file0, rerun, wvars, proj>>

(***************************************************************************)
(* Dates and times.  A datetime is a number of ticks, a date is a number   *)
(* of days; the text of a date ("%Y-%m-%d", "%d/%m/%Y") is its day.        *)
(***************************************************************************)
\* d.strftime("%Y-%m-%d"), d.date(): the time of day is dropped
Date(t) == t \div TicksPerDay

\* datetime.strptime(text, format): midnight of that day
Midnight(d) == d * TicksPerDay

\* timedelta(days=n)
Days(n) == n * TicksPerDay

(***************************************************************************)
(* weather_history.json.  state is "absent", "ok" (json.load returns a     *)
(* document with daily.time and daily.temperature_2m_mean) or "corrupt"    *)
(* (json.load raises).                                                     *)
(***************************************************************************)
NoDaily == [time |-> <<>>, temperature_2m_mean |-> <<>>]

AbsentWeather == [state |-> "absent", daily |-> NoDaily]

CorruptWeather == [state |-> "corrupt", daily |-> NoDaily]

\* the mean temperature the weather service reports for day d
Temp(d) == 20 + (d % 7)

\* the days start..end
DayRange(first, lastd) == [i \in 1..(lastd - first + 1) |-> first + i - 1]

\* fetch_weather: the daily series of the dates start_date..end_date
FetchWeather(start_date, end_date) ==
    LET days == DayRange(Date(start_date), Date(end_date))
    IN [empty |-> FALSE,
        daily |-> [time |-> days,
                   temperature_2m_mean |-> [i \in 1..Len(days) |-> Temp(days[i])]]]

\* what the weather service can answer:
\*   http_error  requests.get or raise_for_status raises
\*   bad_body    response.json() raises
\*   ok          the series asked for
ApiOutcomes == {"http_error", "bad_body", "ok"}

\* lines 92-98: existing_weather, {} when the file is absent or unreadable
LoadWeather(file) ==
    IF file.state = "ok" THEN [empty |-> FALSE, daily |-> file.daily]
    ELSE [empty |-> TRUE, daily |-> NoDaily]

\* merge_data
MergeData(existing, new_data) ==
    IF existing.empty THEN new_data
    ELSE [empty |-> FALSE,
          daily |-> [time |-> existing.daily.time \o new_data.daily.time,
                     temperature_2m_mean |->
                        existing.daily.temperature_2m_mean \o
                        new_data.daily.temperature_2m_mean]]

(***************************************************************************)
(* get_start_date.                                                         *)
(***************************************************************************)
\* lines 21-23: one day after the last date of the weather history
MutStartFromWeather(time) == Midnight(time[Len(time)])
StartFromWeather(time) == Midnight(time[Len(time)]) + Days(1)

\* lines 34-40: the reading dates that parse
ReadingDates(bills) ==
    {Midnight(bills[i].leitura_atual) :
        i \in {j \in 1..Len(bills) : bills[j].leitura_atual # Null}}

Min(S) == CHOOSE x \in S : \A y \in S : x <= y
Max(S) == CHOOSE x \in S : \A y \in S : x >= y

\* lines 42-45
StartFromBills(dates) == Min(dates) - Days(35)

\* line 50
StartDefault(t) == t - Days(365)

MutGetStartDate(wfile, bfile, t) ==
    IF bfile.state = "ok" /\ ReadingDates(bfile.recs) # {}
    THEN StartFromBills(ReadingDates(bfile.recs))
    ELSE IF wfile.state = "ok" /\ wfile.daily.time # <<>>
    THEN StartFromWeather(wfile.daily.time)
    ELSE StartDefault(t)
GetStartDate(wfile, bfile, t) ==
    IF wfile.state = "ok" /\ wfile.daily.time # <<>>
    THEN StartFromWeather(wfile.daily.time)
    ELSE \* no file, json.load raised, or time[-1] raised IndexError
         IF bfile.state = "ok" /\ ReadingDates(bfile.recs) # {}
         THEN StartFromBills(ReadingDates(bfile.recs))
         ELSE StartDefault(t)

(***************************************************************************)
(* dashboard.py: load_data and the hybrid forecast block.  Temperatures    *)
(* are whole degrees; a mean is kept as the fraction [num, den].           *)
(***************************************************************************)
RECURSIVE Sum(_)
Sum(s) == IF s = <<>> THEN 0 ELSE s[1] + Sum(Tail(s))

\* the forecast temperature for day d
ForecastTemp(d) == 21 + (d % 5)

\* what the forecast service can answer: nothing usable, fewer days than
\* asked for, or the days asked for, counted from today
ForecastReplies == {"none", "short", "full"}

\* fetch_forecast(days)
FetchForecast(days, today, reply) ==
    LET n == IF reply = "none" THEN 0
             ELSE IF reply = "short" /\ ShortForecast < days THEN ShortForecast
             ELSE days
    IN [has_daily |-> reply # "none",
        time |-> DayRange(Date(today), Date(today) + n - 1)]

\* lines 78-87: a bill has a temp_media when the weather store has a date in
\* the 30 days up to its reading
HasTempMedia(read_date, time) ==
    \E k \in 1..Len(time) :
        /\ Midnight(time[k]) >= read_date - Days(30)
        /\ Midnight(time[k]) <= read_date

\* line 114: the reading dates of the bills the model is fitted on
ValidBillDates(bills, time) ==
    {d \in ReadingDates(bills) : HasTempMedia(d, time)}

\* lines 161-164: the padding
CycleLength == 30

DefaultTemp == 25

PadCount(n) == IF n < CycleLength THEN CycleLength - n ELSE 0

AvgSoFar(temps) ==
    IF temps # <<>> THEN [num |-> Sum(temps), den |-> Len(temps)]
    ELSE [num |-> DefaultTemp, den |-> 1]

NoProjection ==
    [computed |-> FALSE, today |-> 0, cycle_start |-> 0, cycle_end |-> 0,
     asked |-> 0, forecast |-> <<>>,
     past_dates |-> <<>>, future_dates |-> <<>>,
     past_temps |-> <<>>, future_temps |-> <<>>, missing |-> 0,
     pad |-> [num |-> 0, den |-> 1], full_len |-> 0,
     hybrid_avg_temp |-> [num |-> 0, den |-> 1]]

\* lines 128-167
HybridForecast(time, last_bill_date, today, reply) ==
    LET cycle_start == last_bill_date + Days(1)
        cycle_end == cycle_start + Days(CycleLength)
        days_future == (cycle_end - today) \div TicksPerDay
        asked == IF days_future + 5 > 1 THEN days_future + 5 ELSE 1
        forecast_data == FetchForecast(asked, today, reply)
        Elapsed(d) == Midnight(d) >= cycle_start /\ Midnight(d) < today
        Remaining(d) == Midnight(d) >= today /\ Midnight(d) <= cycle_end
        past_dates == SelectSeq(time, Elapsed)
        future_dates == IF forecast_data.has_daily
                        THEN SelectSeq(forecast_data.time, Remaining)
                        ELSE <<>>
        past_temps == [i \in 1..Len(past_dates) |-> Temp(past_dates[i])]
        future_temps == [i \in 1..Len(future_dates) |-> ForecastTemp(future_dates[i])]
        collected == past_temps \o future_temps
        missing == PadCount(Len(collected))
        avg_so_far == AvgSoFar(collected)
        full_len == Len(collected) + missing
    IN IF today > cycle_start
       THEN [computed |-> TRUE, today |-> today, cycle_start |-> cycle_start,
             cycle_end |-> cycle_end, asked |-> asked,
             forecast |-> forecast_data.time,
             past_dates |-> past_dates, future_dates |-> future_dates,
             past_temps |-> past_temps, future_temps |-> future_temps,
             missing |-> missing,
             pad |-> IF missing > 0 THEN avg_so_far ELSE [num |-> 0, den |-> 1],
             full_len |-> full_len,
             \* (sum(collected) + missing * avg_so_far) / len(full_temps)
             hybrid_avg_temp |->
                [num |-> Sum(collected) * avg_so_far.den + missing * avg_so_far.num,
                 den |-> avg_so_far.den * full_len]]
       ELSE NoProjection

\* one rendering of the page: load_data, the guards of lines 100 and 117,
\* then the forecast block
Render(reply) ==
    /\ proj' =
         IF bills_file.state = "ok" /\ weather_file.state = "ok"
            /\ weather_file.daily.time # <<>>
            /\ ValidBillDates(bills_file.recs, weather_file.daily.time) # {}
         THEN HybridForecast(weather_file.daily.time,
                             Max(ValidBillDates(bills_file.recs,
                                                weather_file.daily.time)),
                             now, reply)
         ELSE NoProjection
    /\ UNCHANGED <<bvars, wvars>>

(***************************************************************************)
(* update_weather_data.                                                    *)
(***************************************************************************)
\* lines 108-110: the except clause; nothing has been written
MutOnFetchError(file) == [file |-> CorruptWeather, result |-> FALSE]
OnFetchError(file) == [file |-> file, result |-> FALSE]

NoCall ==
    [called |-> FALSE, at |-> 0, start_date |-> 0, end_date |-> 0,
     api |-> "ok", fetched |-> FALSE, result |-> TRUE, file0 |-> AbsentWeather,
     prev_called |-> FALSE, prev_at |-> 0, prev_fetched |-> FALSE,
     prev_result |-> TRUE]

UpdateWeatherData(api) ==
    LET start_date == GetStartDate(weather_file, bills_file, now)
        end_date == now - Days(2)
        uptodate == Date(start_date) > Date(end_date)
        failed == ~uptodate /\ api # "ok"
        updated == MergeData(LoadWeather(weather_file),
                             FetchWeather(start_date, end_date))
        after == IF uptodate THEN [file |-> weather_file, result |-> TRUE]
                 ELSE IF failed THEN OnFetchError(weather_file)
                 ELSE [file |-> [state |-> "ok", daily |-> updated.daily],
                       result |-> TRUE]
    IN /\ uptodate => api = "ok"     \* no request is made
       /\ weather_file' = after.file
       /\ wcall' = [called |-> TRUE, at |-> now,
                    start_date |-> start_date, end_date |-> end_date,
                    api |-> api, fetched |-> ~uptodate,
                    result |-> after.result, file0 |-> weather_file,
                    prev_called |-> wcall.called, prev_at |-> wcall.at,
                    prev_fetched |-> wcall.fetched,
                    prev_result |-> wcall.result]
       /\ proj' = NoProjection
       /\ UNCHANGED <<now, bvars>>

\* time passes
Tick ==
    /\ now < Midnight(Day0) + MaxTicks
    /\ now' = now + 1
    /\ proj' = NoProjection
    /\ UNCHANGED <<weather_file, wcall, bvars>>

\* the bill stores the weather updater can find
WeatherBillStores ==
    {AbsentFile, [state |-> "corrupt", recs |-> <<>>],
     [state |-> "ok", recs |-> <<>>],
     [state |-> "ok", recs |-> <<Rec(1, Null, TRUE)>>],
     [state |-> "ok", recs |-> <<Rec(1, Day0 - 5, TRUE), Rec(2, Day0 - 9, TRUE)>>],
     [state |-> "ok", recs |-> <<Rec(1, Day0 - 9, TRUE), Rec(2, Null, TRUE),
                                 Rec(3, Day0 - 5, TRUE)>>],
     [state |-> "ok", recs |-> <<Rec(1, Day0 - 40, TRUE)>>],
     [state |-> "ok", recs |-> <<Rec(1, Day0 + 40, TRUE)>>]}

\* the weather stores a behaviour can start from
InitWeatherStores ==
    {AbsentWeather, CorruptWeather} \cup
    {[state |-> "ok", daily |-> FetchWeather(Midnight(d), Midnight(e)).daily] :
        d \in {Day0 - 12}, e \in {Day0 - 6, Day0 - 3, Day0 - 2}}

InitStores ==
    {AbsentFile} \cup
    {[state |-> "ok", recs |-> <<>>]} \cup
    {[state |-> "ok", recs |-> <<Rec(f, l, TRUE)>>] :
        f \in (Files \cup {None}), l \in BillLeituras}

InitBills ==
    /\ faturas \in Directories
    /\ bills_file \in InitStores
    /\ pc = "idle"
    /\ history = <<>>
    /\ processed_files = {}
    /\ pdf_files = <<>>
    /\ idx = 1
    /\ new_data_count = 0
    /\ runs = 0
    /\ file0 = bills_file
    /\ outcome = [f \in Files |-> NoOutcome]
    /\ rerun = [same_dir |-> FALSE, first_failed |-> FALSE]
    /\ now = Midnight(Day0)
    /\ weather_file = AbsentWeather
    /\ wcall = NoCall
    /\ proj = NoProjection

NextBills ==
    \/ \E dir \in Directories : StartRun(dir)
    \/ SkipItem
    \/ \E r \in Responses : FailItem(r)
    \/ \E r \in Responses : AddItem(r)
    \/ FinishRun
    \/ InterruptRun

SpecBills == InitBills /\ [][NextBills]_vars

InitWeather ==
    /\ faturas = [isdir |-> FALSE, pdfs |-> {}]
    /\ bills_file \in WeatherBillStores
    /\ pc = "idle"
    /\ history = <<>>
    /\ processed_files = {}
    /\ pdf_files = <<>>
    /\ idx = 1
    /\ new_data_count = 0
    /\ runs = 0
    /\ file0 = bills_file
    /\ outcome = [f \in Files |-> NoOutcome]
    /\ rerun = [same_dir |-> FALSE, first_failed |-> FALSE]
    /\ now \in {Midnight(Day0), Midnight(Day0) + 1}
    /\ weather_file \in InitWeatherStores
    /\ wcall = NoCall
    /\ proj = NoProjection

NextWeather ==
    \/ \E api \in ApiOutcomes : UpdateWeatherData(api)
    \/ Tick

SpecWeather == InitWeather /\ [][NextWeather]_vars

NextDash ==
    \/ \E api \in ApiOutcomes : UpdateWeatherData(api)
    \/ Tick
    \/ \E reply \in ForecastReplies : Render(reply)

\* the page needs a bill store with a reading date
DashBillStores ==
    {b \in WeatherBillStores : b.state = "ok" /\ ReadingDates(b.recs) # {}}

InitDash == InitWeather /\ bills_file \in DashBillStores

SpecDash == InitDash /\ [][NextDash]_vars

(***************************************************************************)
(* Properties of the bill extractor, checked under SpecBills.              *)
(***************************************************************************)
Unique(recs) ==
    \A i, j \in 1..Len(recs) :
        recs[i].arquivo_origem = recs[j].arquivo_origem => i = j

InRun == pc \in {"loop", "done"}

\* C1: starting from a bill store whose arquivo_origem values are pairwise
\* distinct, after any sequence of runs over any directory contents no two
\* records of the store, in memory or in bills_history.json, share an
\* arquivo_origem.
C1_UniqueArquivoOrigem == Unique(history) /\ Unique(bills_file.recs)

\* a second run has met a file the store already had, beside a new one
C1_Witness ==
    /\ pc = "done"
    /\ runs >= 2
    /\ Len(bills_file.recs) >= 2
    /\ \E f \in Files : outcome[f] = "skipped"
    /\ \E f \in Files : outcome[f] = "ok"

\* C2 as stated: a run that follows a finished run over the same set of PDF
\* files returns 0 and leaves bills_history.json unchanged.
C2_RerunAddsNothing ==
    (pc = "done" /\ rerun.same_dir) =>
        (new_data_count = 0 /\ bills_file = file0)

\* C2 amended: a run that follows a finished run over the same set of PDF
\* files returns 0 and leaves bills_history.json unchanged, provided no
\* file failed in the first run (a file that failed has no record and is
\* attempted again).
C2_RerunAfterCleanRun ==
    (pc = "done" /\ rerun.same_dir /\ ~rerun.first_failed) =>
        (new_data_count = 0 /\ bills_file = file0)

\* the first run added both of its files, the second met them all again
C2_Witness ==
    /\ pc = "done"
    /\ rerun.same_dir
    /\ ~rerun.first_failed
    /\ Cardinality(faturas.pdfs) >= 2
    /\ \A f \in faturas.pdfs : outcome[f] = "skipped"
    /\ file0.state = "ok"
    /\ Len(file0.recs) >= 2

\* C4 as stated: every record that is in bills_history.json before a run is
\* still in it during and after the run, unchanged and at the same position,
\* whatever happens during the run.
C4_AppendOnly == InRun => IsPrefix(file0.recs, bills_file.recs)

\* C5: a failed item adds no record, the loop goes on to every later PDF of
\* the run, and an item that succeeds is in the history and in the store
\* when its iteration ends.
C5_FailureDoesNotAbortBatch ==
    /\ \A f \in Files :
         outcome[f] = "failed" =>
            /\ f \notin Names(history)
            /\ bills_file = file0 \/ f \notin Names(bills_file.recs)
    /\ (pc = "done" /\ faturas.isdir) =>
            \A f \in Range(pdf_files) : outcome[f] # NoOutcome
    /\ \A f \in Files : outcome[f] = "ok" => f \in Names(history)
    /\ (pc = "loop" /\ idx > 1 /\ idx - 1 <= Len(pdf_files)) =>
            (outcome[pdf_files[idx - 1]] = "ok" =>
                /\ bills_file.state = "ok"
                /\ pdf_files[idx - 1] \in Names(bills_file.recs))

\* a run has ended in which a PDF failed and a later one was added
C5_Witness ==
    /\ pc = "done"
    /\ \E i, j \in 1..Len(pdf_files) :
         /\ i < j
         /\ outcome[pdf_files[i]] = "failed"
         /\ outcome[pdf_files[j]] = "ok"
         /\ bills_file.state = "ok"
         /\ pdf_files[j] \in Names(bills_file.recs)

\* the records the run has counted: the last new_data_count of history
Counted ==
    {history[i] : i \in (Len(history) - new_data_count + 1)..Len(history)}

\* C6 as stated: at every point of a run bills_history.json can be read back
\* and holds every record counted so far, so the count returned is the
\* number of records the run added to the file.
C6_CountedIsPersisted ==
    (InRun /\ new_data_count > 0) =>
        /\ bills_file.state = "ok"
        /\ Counted \subseteq Range(bills_file.recs)
        /\ Len(bills_file.recs) = Len(LoadHistory(file0)) + new_data_count

(***************************************************************************)
(* Properties of the weather updater, checked under SpecWeather.           *)
(***************************************************************************)
\* the last two calls were made on the same day, one right after the other
CalledTwice ==
    /\ wcall.called
    /\ wcall.prev_called
    /\ Date(wcall.prev_at) = Date(wcall.at)

NoOp ==
    /\ ~wcall.fetched
    /\ weather_file = wcall.file0
    /\ wcall.result = TRUE

\* C3 as stated: the second of two calls in immediate succession makes no
\* request, leaves weather_history.json unchanged and returns True.
C3_SecondCallIsNoOp == CalledTwice => NoOp

\* C3 amended: the second of two calls in immediate succession makes no
\* request, leaves weather_history.json unchanged and returns True, provided
\* the first call returned True.  After a first call that failed the store
\* is as it was, so the second call makes the same request again.
C3_SecondCallAfterSuccessIsNoOp ==
    (CalledTwice /\ wcall.prev_result = TRUE) => NoOp

\* the first call fetched and wrote, the second found the store current
C3_Witness ==
    /\ CalledTwice
    /\ wcall.prev_fetched
    /\ wcall.prev_result = TRUE
    /\ Date(wcall.start_date) > Date(wcall.end_date)
    /\ NoOp

\* C7: when the request or the parsing of its response fails, the call
\* returns False and weather_history.json is as it was before the call.
C7_FailedFetchWritesNothing ==
    (wcall.called /\ wcall.fetched /\ wcall.api # "ok") =>
        (wcall.result = FALSE /\ weather_file = wcall.file0)

\* a response that did not parse, with a store that had data to lose
C7_Witness ==
    /\ wcall.called
    /\ wcall.fetched
    /\ wcall.api = "bad_body"
    /\ wcall.result = FALSE
    /\ wcall.file0.state = "ok"
    /\ Len(wcall.file0.daily.time) > 0

StrictlyIncreasing(s) == \A i \in 1..(Len(s) - 1) : s[i] < s[i + 1]

\* C8: with the clock moving forward and the service returning the dates of
\* the range asked for, the stored time list is strictly increasing, and a
\* call only appends to it.
C8_DatesStrictlyIncreasing ==
    /\ weather_file.state = "ok" => StrictlyIncreasing(weather_file.daily.time)
    /\ (wcall.called /\ wcall.file0.state = "ok") =>
            /\ weather_file.state = "ok"
            /\ IsPrefix(wcall.file0.daily.time, weather_file.daily.time)

\* two calls in a row have each appended dates to a store that had some
C8_Witness ==
    /\ wcall.called
    /\ wcall.fetched
    /\ wcall.prev_fetched
    /\ wcall.prev_result = TRUE
    /\ wcall.result = TRUE
    /\ Len(wcall.file0.daily.time) > 0
    /\ Len(weather_file.daily.time) > Len(wcall.file0.daily.time)

HasWeatherHistory(file) == file.state = "ok" /\ Len(file.daily.time) >= 1

ParseableReadings(file) ==
    IF file.state = "ok"
    THEN {i \in 1..Len(file.recs) : file.recs[i].leitura_atual # Null}
    ELSE {}

\* C9: the start date is (a) the day after the last stored weather date when
\* the weather store has one; otherwise (b) 35 days before the earliest
\* bill reading date that parses, when there is one; otherwise (c) 365 days
\* before now.
C9_StartDatePriority ==
    wcall.called =>
        LET w == wcall.file0
            r == ParseableReadings(bills_file)
        IN /\ HasWeatherHistory(w) =>
                /\ Date(wcall.start_date) = w.daily.time[Len(w.daily.time)] + 1
                /\ wcall.start_date = Midnight(Date(wcall.start_date))
           /\ (~HasWeatherHistory(w) /\ r # {}) =>
                \E i \in r :
                    /\ \A j \in r : bills_file.recs[i].leitura_atual <=
                                    bills_file.recs[j].leitura_atual
                    /\ wcall.start_date =
                          Midnight(bills_file.recs[i].leitura_atual - 35)
           /\ (~HasWeatherHistory(w) /\ r = {}) =>
                wcall.start_date = wcall.at - 365 * TicksPerDay

\* rule (b) was used: the weather store could not be read, and the earliest
\* reading of the bill store is not its first record
C9_Witness ==
    /\ wcall.called
    /\ wcall.file0.state = "corrupt"
    /\ Cardinality(ParseableReadings(bills_file)) >= 2
    /\ \E i \in ParseableReadings(bills_file) :
          /\ i > 1
          /\ wcall.start_date = Midnight(bills_file.recs[i].leitura_atual - 35)
    /\ wcall.fetched

(***************************************************************************)
(* Properties of the hybrid forecast block, checked under SpecDash.        *)
(***************************************************************************)
\* the entries collected from the weather store and the forecast
Collected == proj.past_temps \o proj.future_temps

\* C10 as stated: whenever a projection is computed, the list whose mean is
\* hybrid_avg_temp has exactly 30 entries; a collected list of fewer than 30
\* is padded to 30 with the mean of what was collected, 25 when that is
\* nothing.
C10_ThirtyEntries ==
    proj.computed =>
        /\ proj.full_len = 30
        /\ Len(Collected) < 30 =>
              /\ proj.missing = 30 - Len(Collected)
              /\ proj.pad = IF Len(Collected) = 0
                            THEN [num |-> 25, den |-> 1]
                            ELSE [num |-> Sum(Collected), den |-> Len(Collected)]

\* the dates of s that lie in first..lastd, in order
DatesWithin(s, first, lastd) ==
    LET Inside(d) == first <= d /\ d <= lastd IN SelectSeq(s, Inside)

\* C11 as stated: when a projection is computed the elapsed segment is the
\* stored dates from the cycle start through yesterday, the remaining
\* segment is the forecast dates from today through the cycle end, today
\* included, and no date is in both.
C11_SplitAtToday ==
    proj.computed =>
        LET today_date == Date(proj.today)
        IN /\ proj.past_dates =
                DatesWithin(weather_file.daily.time, Date(proj.cycle_start),
                            today_date - 1)
           /\ proj.future_dates =
                DatesWithin(proj.forecast, today_date, Date(proj.cycle_end))
           /\ Range(proj.past_dates) \cap Range(proj.future_dates) = {}

====
